---- MODULE Spec2Model ----
(***************************************************************************)
(* Model of plugin/HAADPlugin.py: the hydrogenation plugin that runs the   *)
(* external HAAD tool on a structure and merges the hydrogens it computes  *)
(* back into the original structure.                                       *)
(*                                                                         *)
(* Four specifications share the module:                                   *)
(*   KeySpec    get_position_key applied to two positions                  *)
(*   LinesSpec  fix_haad_chains and the hydrogen identification loop of    *)
(*              call_HAAD applied to the lines of one output file          *)
(*   MergeSpec  match_and_update applied to one deserialized structure     *)
(*   Spec       add_hydrogens invocations sharing the temporary input path *)
(***************************************************************************)
EXTENDS Integers, Sequences, FiniteSets, TLC

VARIABLES
    \* ---- KeySpec
    posA, posB,         \* two atom positions
    keyA, keyB,         \* their position keys, once computed
    kpc,                \* "ready" | "done"
    \* ---- LinesSpec
    file,               \* the lines of the tool's output file (pdb_path + ".h")
    lines,              \* f.readlines() of the pass that is running
    output_lines,       \* fix_haad_chains: the copy that is written back
    id,                 \* the line counter of the running pass
    l,                  \* fix_haad_chains: the local l (Unbound until assigned)
    new_hydrogens,      \* call_HAAD: the indices collected so far
    fpc,                \* "raw" | "fix" | "fixed" | "identify" | "done"
    err,                \* None, or the exception that ended the pass
    \* ---- MergeSpec
    complex,            \* the original structure: its atoms and bonds
    atom_by_position,   \* add_hydrogens: position key -> index of an atom of complex
    result_complex,     \* the structure deserialized from the tool's output
    hydrogen_ids,       \* the indices call_HAAD returned
    hpos,               \* how many of hydrogen_ids the loop of line 76 has taken
    mpc,                \* "index" | "match" | "done"
    \* ---- Spec
    inv,                \* the add_hydrogens invocations of the plugin instance
    proc,               \* the tool process each invocation awaits
    input_file,         \* the structure serialized at self.input_file.name
    output_pdb          \* the structure the file at pdb_path + ".h" was computed for

keyVars == <<posA, posB, keyA, keyB, kpc>>
lineVars == <<file, lines, output_lines, id, l, new_hydrogens, fpc, err>>
mergeVars == <<complex, atom_by_position, result_complex, hydrogen_ids, hpos, mpc>>

batchVars == <<inv, proc, input_file, output_pdb>>

vars == <<keyVars, lineVars, mergeVars, batchVars>>

None == "None"

\* a local that no assignment has reached; no line readlines() returns is empty
Unbound == <<>>

Abs(n) == IF n < 0 THEN -n ELSE n

\* the variables of the specifications that are not running
KeyIdle ==
    /\ posA = None
    /\ posB = None
    /\ keyA = None
    /\ keyB = None
    /\ kpc = "idle"

LinesIdle ==
    /\ file = <<>>
    /\ lines = <<>>
    /\ output_lines = <<>>
    /\ id = 0
    /\ l = Unbound
    /\ new_hydrogens = <<>>
    /\ fpc = "idle"
    /\ err = None

MergeIdle ==
    /\ complex = None
    /\ atom_by_position = None
    /\ result_complex = None
    /\ hydrogen_ids = <<>>
    /\ hpos = 0
    /\ mpc = "idle"

BatchIdle ==
    /\ inv = <<>>
    /\ proc = <<>>
    /\ input_file = None
    /\ output_pdb = None

(***************************************************************************)
(* Positions.  A coordinate is an integer number of thirds of 0.0001, so   *)
(* that round(x, 4) is a real rounding and never meets a tie.              *)
(***************************************************************************)
Axes == {"x", "y", "z"}

\* the factor of line 146
KeyScale == 50

\* round(x, 4), in units of 0.0001: the nearest multiple of 3 thirds
Round4(n) == (n + 1) \div 3

\* int(50 * r) for r a number of 0.0001: int() truncates toward zero.
\* The double product 50 * r has the integer part of the exact one at
\* every coordinate of the model (it first falls short of it at 0.58).
IntScaled(r) ==
    IF r >= 0 THEN (KeyScale * r) \div 10000
              ELSE -((KeyScale * (-r)) \div 10000)

\* a plausible slip: scaling the coordinate without rounding it first
get_position_key_unrounded(pos) ==
    [a \in Axes |->
        IF pos[a] >= 0 THEN (KeyScale * pos[a]) \div 30000
                       ELSE -((KeyScale * (-pos[a])) \div 30000)]

\* tuple(map(lambda x: int(50 * round(x, 4)), atom.position))
get_position_key(pos) == [a \in Axes |-> IntScaled(Round4(pos[a]))]

(***************************************************************************)
(* KeySpec: get_position_key on two positions.                             *)
(***************************************************************************)
\* half-width of the window of coordinates kept around each cell edge
CoordWindow == 1

\* the coordinates around the first cell edge 0.02 (599 thirds round to
\* 0.0200) and around its mirror image
Coords == {s * (599 + d) : s \in {-1, 1}, d \in -CoordWindow..CoordWindow}

KeyInit ==
    /\ LinesIdle
    /\ MergeIdle
    /\ BatchIdle
    /\ posA \in [Axes -> Coords]
    /\ posB \in [Axes -> Coords]
    /\ keyA = None
    /\ keyB = None
    /\ kpc = "ready"

ComputeKeys ==
    /\ kpc = "ready"
    /\ keyA' = get_position_key(posA)
    /\ keyB' = get_position_key(posB)
    /\ kpc' = "done"
    /\ UNCHANGED <<posA, posB, lineVars, mergeVars, batchVars>>

KeyNext == ComputeKeys

KeySpec == KeyInit /\ [][KeyNext]_vars

(***************************************************************************)
(* Record lines.  A line is the sequence of its characters, the line       *)
(* terminator included, as f.readlines() returns it.  Python counts        *)
(* columns from 0.                                                         *)
(***************************************************************************)
Min(a, b) == IF a < b THEN a ELSE b
Max(a, b) == IF a > b THEN a ELSE b

\* s[c]
Col(s, c) == s[c + 1]

\* s[a:b] for 0 <= a and 0 <= b: a slice never raises, it is cut to the line
Slice(s, a, b) == SubSeq(s, a + 1, Min(b, Len(s)))

\* int(c) of one character: only a decimal digit has a value
DigitValue ==
    [c \in {"0", "1", "2", "3", "4", "5", "6", "7", "8", "9"} |->
        CASE c = "0" -> 0 [] c = "1" -> 1 [] c = "2" -> 2 [] c = "3" -> 3
          [] c = "4" -> 4 [] c = "5" -> 5 [] c = "6" -> 6 [] c = "7" -> 7
          [] c = "8" -> 8 [] c = "9" -> 9]

\* len(line) > 56 and line[56] != " " and int(line[56]) < 2
\* (lines 181 and 193): "yes", "no", or the ValueError int() raises
is_new_hydrogen(line) ==
    IF Len(line) > 56 /\ Col(line, 56) # " "
    THEN IF Col(line, 56) \notin DOMAIN DigitValue THEN "ValueError"
         ELSE IF DigitValue[Col(line, 56)] < 2 THEN "yes" ELSE "no"
    ELSE "no"

\* lines 196-201: the nearest line before line n that is longer than 22
\* characters and has a non-blank column 21; the set is empty when the
\* scan breaks nowhere
ChainBearing(ls, i) == Len(ls[i + 1]) > 22 /\ Col(ls[i + 1], 21) # " "

ScanHits(ls, n) == {i \in 0..(n - 1) : ChainBearing(ls, i)}

NearestChainLine(ls, n) ==
    LET hits == ScanHits(ls, n)
    IN  ls[(CHOOSE i \in hits : \A j \in hits : j <= i) + 1]

\* line 203
SameResidue(line, prev) ==
    /\ Slice(line, 17, 17 + 4) = Slice(prev, 17, 17 + 4)
    /\ Slice(line, 23, 23 + 4) = Slice(prev, 23, 23 + 4)

\* "1.00 1.00            H \n"
RepairTail ==
    <<"1", ".", "0", "0", " ", "1", ".", "0", "0">>
    \o [i \in 1..12 |-> " "] \o <<"H", " ", "\n">>

\* line 204: out[:21] + l[21] + out[22:-2] + "1.00 1.00            H \n"
Repaired(out, prev) ==
    Slice(out, 0, 21) \o <<Col(prev, 21)>>
    \o Slice(out, 22, Max(Len(out) - 2, 0)) \o RepairTail

(***************************************************************************)
(* LinesSpec: the post-processing of one output file by call_HAAD, lines   *)
(* 173-185: fix_haad_chains, then the identification of the new hydrogens. *)
(***************************************************************************)
\* the number of lines of the output file
MaxLines == 3

ALA == <<"A", "L", "A", " ">>
GLY == <<"G", "L", "Y", " ">>
Seq1 == <<" ", " ", " ", "1">>
Seq2 == <<" ", " ", " ", "2">>

\* the kinds of line the tool's output file is made of: residue name
\* (columns 17-20), chain (21), sequence number (23-26), status (56),
\* length, and whether the line is terminated
LineKinds ==
    { [resn |-> ALA, chain |-> "A", seqn |-> Seq1, status |-> " ", len |-> 80, nl |-> TRUE],
      [resn |-> GLY, chain |-> "B", seqn |-> Seq2, status |-> "2", len |-> 80, nl |-> TRUE],
      [resn |-> ALA, chain |-> " ", seqn |-> Seq1, status |-> "1", len |-> 80, nl |-> TRUE],
      [resn |-> ALA, chain |-> " ", seqn |-> Seq2, status |-> "0", len |-> 80, nl |-> TRUE],
      [resn |-> GLY, chain |-> " ", seqn |-> Seq1, status |-> "1", len |-> 80, nl |-> TRUE],
      [resn |-> ALA, chain |-> " ", seqn |-> Seq1, status |-> "0", len |-> 58, nl |-> TRUE],
      [resn |-> ALA, chain |-> " ", seqn |-> Seq1, status |-> "0", len |-> 57, nl |-> FALSE],
      [resn |-> GLY, chain |-> "B", seqn |-> Seq2, status |-> " ", len |-> 57, nl |-> TRUE],
      [resn |-> ALA, chain |-> "A", seqn |-> Seq1, status |-> "X", len |-> 80, nl |-> TRUE],
      [resn |-> ALA, chain |-> "A", seqn |-> Seq1, status |-> " ", len |-> 26, nl |-> TRUE],
      [resn |-> ALA, chain |-> "A", seqn |-> Seq1, status |-> " ", len |-> 22, nl |-> TRUE] }

\* the characters of a line of kind k
LineOf(k) ==
    [c \in 1..k.len |->
        IF k.nl /\ c = k.len THEN "\n"
        ELSE IF c - 1 \in 17..20 THEN k.resn[c - 17]
        ELSE IF c - 1 = 21 THEN k.chain
        ELSE IF c - 1 \in 23..26 THEN k.seqn[c - 23]
        ELSE IF c - 1 = 56 THEN k.status
        ELSE IF c - 1 < 12 THEN "x"
        ELSE " "]

\* readlines() only leaves the last line of a file unterminated
Files ==
    {f \in UNION {[1..n -> LineKinds] : n \in 1..MaxLines} :
        \A i \in 1..(Len(f) - 1) : f[i].nl}

LinesInit ==
    /\ KeyIdle
    /\ MergeIdle
    /\ BatchIdle
    /\ \E f \in Files : file = [i \in 1..Len(f) |-> LineOf(f[i])]
    /\ lines = <<>>
    /\ output_lines = <<>>
    /\ id = 0
    /\ l = Unbound
    /\ new_hydrogens = <<>>
    /\ fpc = "raw"
    /\ err = None

\* lines 188-191
FixOpen ==
    /\ fpc = "raw"
    /\ lines' = file
    /\ output_lines' = file
    /\ id' = 0
    /\ fpc' = "fix"
    /\ UNCHANGED <<file, l, new_hydrogens, err, keyVars, mergeVars, batchVars>>

\* lines 192-205: one turn of the loop
FixLine ==
    /\ fpc = "fix" /\ err = None
    /\ id < Len(lines)
    /\ LET line == lines[id + 1]
           new == is_new_hydrogen(line)
           found == ScanHits(lines, id) # {}
           prev == IF found THEN NearestChainLine(lines, id) ELSE l
       IN  IF new = "ValueError"
           THEN /\ err' = "ValueError"
                /\ UNCHANGED <<l, output_lines, id>>
           ELSE IF new = "yes" /\ id > 0
           THEN /\ l' = prev
                /\ IF prev = Unbound
                   THEN /\ err' = "UnboundLocalError"
                        /\ UNCHANGED <<output_lines, id>>
                   ELSE /\ output_lines' =
                             IF SameResidue(line, prev)
                             THEN [output_lines EXCEPT
                                     ![id + 1] = Repaired(output_lines[id + 1], prev)]
                             ELSE output_lines
                        /\ id' = id + 1
                        /\ UNCHANGED err
           ELSE /\ id' = id + 1
                /\ UNCHANGED <<l, output_lines, err>>
    /\ UNCHANGED <<file, lines, new_hydrogens, fpc, keyVars, mergeVars, batchVars>>

\* lines 207-211
FixWrite ==
    /\ fpc = "fix" /\ err = None
    /\ id = Len(lines)
    /\ file' = output_lines
    /\ fpc' = "fixed"
    /\ UNCHANGED <<lines, output_lines, id, l, new_hydrogens, err, keyVars, mergeVars, batchVars>>

\* lines 175-179
IdentifyOpen ==
    /\ fpc = "fixed"
    /\ lines' = file
    /\ new_hydrogens' = <<>>
    /\ id' = 0
    /\ fpc' = "identify"
    /\ UNCHANGED <<file, output_lines, l, err, keyVars, mergeVars, batchVars>>

\* lines 180-183: one turn of the loop
IdentifyLine ==
    /\ fpc = "identify" /\ err = None
    /\ id < Len(lines)
    /\ LET new == is_new_hydrogen(lines[id + 1])
       IN  IF new = "ValueError"
           THEN /\ err' = "ValueError"
                /\ UNCHANGED <<new_hydrogens, id>>
           ELSE /\ new_hydrogens' =
                     IF new = "yes" THEN Append(new_hydrogens, id)
                                    ELSE new_hydrogens
                /\ id' = id + 1
                /\ UNCHANGED err
    /\ UNCHANGED <<file, lines, output_lines, l, fpc, keyVars, mergeVars, batchVars>>

\* line 185
IdentifyReturn ==
    /\ fpc = "identify" /\ err = None
    /\ id = Len(lines)
    /\ fpc' = "done"
    /\ UNCHANGED <<file, lines, output_lines, id, l, new_hydrogens, err, keyVars, mergeVars, batchVars>>

LinesNext ==
    \/ FixOpen
    \/ FixLine
    \/ FixWrite
    \/ IdentifyOpen
    \/ IdentifyLine
    \/ IdentifyReturn

LinesSpec == LinesInit /\ [][LinesNext]_vars

(***************************************************************************)
(* Structures.  An atom is a record; an atom of a structure is named by    *)
(* its index, from 0, in the structure's atom sequence; a bond names its   *)
(* two atoms and the residue that owns it.                                 *)
(***************************************************************************)
Pos(px, py, pz) == [x |-> px, y |-> py, z |-> pz]

\* Vector3.distance, squared, of two positions, as hi * 90000 + lo with
\* lo < 90000 (90000 = 300 * 300; 300 thirds of 0.0001 are 0.01): the
\* square of a distance near 2.0 does not fit TLC's integers in one piece
DistanceSq(p, q) ==
    LET dq(a) == Abs(p[a] - q[a]) \div 300
        dr(a) == Abs(p[a] - q[a]) % 300
        low(a) == 600 * dq(a) * dr(a) + dr(a) * dr(a)
        lows == low("x") + low("y") + low("z")
    IN  [far |-> FALSE,
         hi |-> dq("x") * dq("x") + dq("y") * dq("y") + dq("z") * dq("z")
                + lows \div 90000,
         lo |-> lows % 90000]

\* d < e on (squared) distances
DistLess(d, e) ==
    IF d.far \/ e.far THEN e.far /\ ~d.far
    ELSE d.hi < e.hi \/ (d.hi = e.hi /\ d.lo < e.lo)

\* line 126: minD = 10000.0, farther than any two atoms of the model
MinDStart == [far |-> TRUE, hi |-> 0, lo |-> 0]

\* the 2.0 of line 85: 2.0 is 200 * 0.01, squared
BondLimit == [far |-> FALSE, hi |-> 200 * 200, lo |-> 0]

\* a plausible slip: the limit itself rejected
TooFar_inclusive(d) == ~DistLess(d, BondLimit)

\* line 85: dist > 2.0
TooFar(d) == DistLess(BondLimit, d)

\* lines 124-133, from atom i of the residue on: the atoms of the
\* hydrogen's residue are visited in the order of the atom sequence
RECURSIVE ClosestFrom(_, _, _, _)
ClosestFrom(atoms, h, i, best) ==
    IF i >= Len(atoms) THEN best
    ELSE LET a == atoms[i + 1]
             d == DistanceSq(a.position, atoms[h + 1].position)
         IN  IF /\ a.residue = atoms[h + 1].residue
                /\ i # h /\ a.symbol # "H"
                /\ DistLess(d, best.minD)
             THEN ClosestFrom(atoms, h, i + 1, [result |-> i, minD |-> d])
             ELSE ClosestFrom(atoms, h, i + 1, best)

\* result is -1 for Python's None
get_closest_heavy_atom_in_residue(atoms, h) ==
    ClosestFrom(atoms, h, 0, [result |-> -1, minD |-> MinDStart])

\* lines 116-122: the bond is owned by the residue of its second atom
add_bond(atoms, atom1, atom2) ==
    [kind |-> "CovalentSingle", atom1 |-> atom1, atom2 |-> atom2,
     residue |-> atoms[atom2 + 1].residue]

\* lines 46-48: a later atom replaces an earlier one with the same key
IndexOf(atoms) ==
    LET keys == {get_position_key(atoms[i].position) : i \in 1..Len(atoms)}
    IN  [k \in keys |->
            (CHOOSE i \in 1..Len(atoms) :
                /\ get_position_key(atoms[i].position) = k
                /\ \A j \in (i + 1)..Len(atoms) :
                       get_position_key(atoms[j].position) # k) - 1]

\* a plausible slip: the new atom keeps the deserialized atom's own flags
MergedAtom_keep_selected(h_atom, source_atom) ==
    [h_atom EXCEPT !.display_mode = source_atom.display_mode,
                   !.is_het = source_atom.is_het,
                   !.bfactor = source_atom.bfactor,
                   !.occupancy = source_atom.occupancy,
                   !.residue = source_atom.residue]

\* lines 99-106 and 112-113: the copy of the hydrogen, given the source
\* atom's display attributes and the source atom's residue
MergedAtom(h_atom, source_atom) ==
    [h_atom EXCEPT !.display_mode = source_atom.display_mode,
                   !.is_het = source_atom.is_het,
                   !.selected = source_atom.selected,
                   !.bfactor = source_atom.bfactor,
                   !.occupancy = source_atom.occupancy,
                   !.residue = source_atom.residue]

\* lines 108-110 and 114: the copy of the bond, between the source atom
\* and the new atom, owned by the source atom's residue
MergedBond(bond, source, new, residue) ==
    [bond EXCEPT !.atom1 = source, !.atom2 = new, !.residue = residue]

(***************************************************************************)
(* MergeSpec: match_and_update on one original structure, its position     *)
(* index and one deserialized structure.                                   *)
(***************************************************************************)
\* the number of atoms of the deserialized structure
NumResultAtoms == 3

\* the display attributes a deserialized atom carries
DefaultStyle ==
    [display_mode |-> 0, is_het |-> FALSE, selected |-> FALSE,
     bfactor |-> 0, occupancy |-> 100]

StyleA ==
    [display_mode |-> 1, is_het |-> TRUE, selected |-> TRUE,
     bfactor |-> 20, occupancy |-> 50]

StyleB ==
    [display_mode |-> 2, is_het |-> FALSE, selected |-> TRUE,
     bfactor |-> 35, occupancy |-> 75]

Atom(symbol, position, residue, style) ==
    [symbol |-> symbol, position |-> position, residue |-> residue,
     display_mode |-> style.display_mode, is_het |-> style.is_het,
     selected |-> style.selected, bfactor |-> style.bfactor,
     occupancy |-> style.occupancy]

\* the atoms a deserialized structure is made of: heavy atoms at and near
\* the origin, and atoms 1.99, 2.0 and 2.01 away from it along x, or
\* (1.2, 1.5, 0) away; the deserializer's symbol is whatever the record
\* carried
ResultAtoms ==
    { Atom("C", Pos(0, 0, 0), 1, DefaultStyle),
      Atom("N", Pos(300, 0, 0), 1, DefaultStyle),
      Atom("C", Pos(0, 900, 0), 2, DefaultStyle),
      Atom("H", Pos(59700, 0, 0), 1, DefaultStyle),
      Atom("H", Pos(60000, 0, 0), 1, DefaultStyle),
      Atom("H", Pos(60300, 0, 0), 1, DefaultStyle),
      Atom("D", Pos(36000, 45000, 0), 1, DefaultStyle) }

\* the positions of the two atoms of the original structure: apart, or
\* both on one position key
OrigPositions0 == {Pos(0, 0, 0), Pos(0, 900, 0)}
OrigPositions1 == {Pos(0, 900, 0)}

\* the increasing list of the members of a set of indices
RECURSIVE Increasing(_)
Increasing(S) ==
    IF S = {} THEN <<>>
    ELSE LET m == CHOOSE m \in S : \A n \in S : n <= m
         IN  Append(Increasing(S \ {m}), m)

MergeInit ==
    /\ KeyIdle
    /\ LinesIdle
    /\ BatchIdle
    /\ \E p0 \in OrigPositions0, p1 \in OrigPositions1 :
          complex = [atoms |-> <<Atom("C", p0, 1, StyleA), Atom("O", p1, 2, StyleB)>>,
                     bonds |-> <<>>]
    /\ atom_by_position = None
    /\ \E as \in [1..NumResultAtoms -> ResultAtoms] :
          result_complex = [atoms |-> as, bonds |-> <<>>]
    /\ \E S \in SUBSET (0..(NumResultAtoms - 1)) : hydrogen_ids = Increasing(S)
    /\ hpos = 0
    /\ mpc = "index"

\* lines 46-48
IndexAtoms ==
    /\ mpc = "index"
    /\ atom_by_position' = IndexOf(complex.atoms)
    /\ mpc' = "match"
    /\ UNCHANGED <<complex, result_complex, hydrogen_ids, hpos, keyVars, lineVars, batchVars>>

\* lines 76-114: one turn of the loop
MatchStep ==
    /\ mpc = "match"
    /\ hpos < Len(hydrogen_ids)
    /\ LET h == hydrogen_ids[hpos + 1]
           atoms == [result_complex.atoms EXCEPT ![h + 1].symbol = "H"]
           closest == get_closest_heavy_atom_in_residue(atoms, h)
           bonded == closest.result
           bond == add_bond(atoms, h, bonded)
           bonded_atom_key == get_position_key(atoms[bonded + 1].position)
           source == atom_by_position[bonded_atom_key]
           source_atom == complex.atoms[source + 1]
           new_atom == MergedAtom(atoms[h + 1], source_atom)
           new_bond == MergedBond(bond, source, Len(complex.atoms), source_atom.residue)
       IN  IF bonded = -1 \/ TooFar(closest.minD)
           THEN /\ result_complex' = [result_complex EXCEPT !.atoms = atoms]
                /\ UNCHANGED complex
           ELSE /\ result_complex' =
                     [atoms |-> atoms, bonds |-> Append(result_complex.bonds, bond)]
                /\ IF bonded_atom_key \notin DOMAIN atom_by_position
                   THEN UNCHANGED complex
                   ELSE complex' = [atoms |-> Append(complex.atoms, new_atom),
                                    bonds |-> Append(complex.bonds, new_bond)]
    /\ hpos' = hpos + 1
    /\ UNCHANGED <<atom_by_position, hydrogen_ids, mpc, keyVars, lineVars, batchVars>>

\* the loop of line 76 is exhausted
MatchReturn ==
    /\ mpc = "match"
    /\ hpos = Len(hydrogen_ids)
    /\ mpc' = "done"
    /\ UNCHANGED <<complex, atom_by_position, result_complex, hydrogen_ids, hpos,
                   keyVars, lineVars, batchVars>>

MergeNext ==
    \/ IndexAtoms
    \/ MatchStep
    \/ MatchReturn

MergeSpec == MergeInit /\ [][MergeNext]_vars


(***************************************************************************)
(* Spec: add_hydrogens.  Every invocation is a task of the plugin's event  *)
(* loop (async_callback); a task runs until it awaits the tool process of  *)
(* call_HAAD, line 168, and resumes once that process has exited.  The     *)
(* structure at position k of the batch of invocation i is <<i, k>>.  The  *)
(* text of an output file is the matter of LinesSpec and the merge of      *)
(* MergeSpec: here a file is known by the structure it holds.              *)
(***************************************************************************)
\* the number of add_hydrogens invocations on the plugin instance
NumInvocations == 2

\* the number of structures of the longest batch
MaxBatch == 2

Invocations == 1..NumInvocations

\* the exit statuses of the tool
ExitCodes == {0, 1}

Init ==
    /\ KeyIdle
    /\ LinesIdle
    /\ MergeIdle
    /\ inv = [i \in Invocations |->
                [pc |-> "idle", n |-> 0, k |-> 0, merged |-> <<>>, codes |-> <<>>]]
    /\ proc = [i \in Invocations |-> [state |-> "none", input |-> None, exit_code |-> 0]]
    /\ input_file = None
    /\ output_pdb = None

\* lines 157-168: a new Process on the path, awaited
StartedProcess == [state |-> "started", input |-> None, exit_code |-> 0]

\* lines 38-51 up to the await: the first structure is serialized to the
\* shared path and the tool is started on it
Invoke(i, n) ==
    /\ inv[i].pc = "idle"
    /\ inv' = [inv EXCEPT ![i] =
                 [pc |-> "awaiting", n |-> n, k |-> 1,
                  merged |-> [j \in 1..n |-> <<>>], codes |-> <<>>]]
    /\ input_file' = <<i, 1>>
    /\ proc' = [proc EXCEPT ![i] = StartedProcess]
    /\ UNCHANGED <<output_pdb, keyVars, lineVars, mergeVars>>

\* the tool reads the file at the path it was given
ToolRead(i) ==
    /\ proc[i].state = "started"
    /\ proc' = [proc EXCEPT ![i].state = "read", ![i].input = input_file]
    /\ UNCHANGED <<inv, input_file, output_pdb, keyVars, lineVars, mergeVars>>

\* the tool writes the hydrogenated structure next to its input and exits
ToolSucceed(i) ==
    /\ proc[i].state = "read"
    /\ output_pdb' = proc[i].input
    /\ proc' = [proc EXCEPT ![i].state = "exited", ![i].exit_code = 0]
    /\ UNCHANGED <<inv, input_file, keyVars, lineVars, mergeVars>>

\* the tool exits with a non-zero status
ToolFail(i, code) ==
    /\ proc[i].state \in {"started", "read"}
    /\ code # 0
    /\ proc' = [proc EXCEPT ![i].state = "exited", ![i].exit_code = code]
    /\ UNCHANGED <<inv, input_file, output_pdb, keyVars, lineVars, mergeVars>>

\* lines 169-171: the notification is sent through a name, self, that the
\* module-level function does not have; the NameError leaves call_HAAD and
\* add_hydrogens
ResumeFailed(i) ==
    /\ inv[i].pc = "awaiting"
    /\ proc[i].state = "exited"
    /\ proc[i].exit_code # 0
    /\ inv' = [inv EXCEPT ![i].pc = "NameError",
                          ![i].codes = Append(@, proc[i].exit_code)]
    /\ UNCHANGED <<proc, input_file, output_pdb, keyVars, lineVars, mergeVars>>

\* lines 173-185 and 52-56: the file at the output path is repaired and
\* deserialized, and its hydrogens are merged into the structure of the
\* turn; then the loop of line 42 goes on, lines 43-51, or ends, lines 58-61
ResumeMerged(i) ==
    /\ inv[i].pc = "awaiting"
    /\ proc[i].state = "exited"
    /\ proc[i].exit_code = 0
    /\ LET k == inv[i].k
           merged == [inv[i].merged EXCEPT ![k] = Append(@, output_pdb)]
           codes == Append(inv[i].codes, 0)
       IN  IF k < inv[i].n
           THEN /\ inv' = [inv EXCEPT ![i].merged = merged, ![i].codes = codes,
                                      ![i].k = k + 1]
                /\ input_file' = <<i, k + 1>>
                /\ proc' = [proc EXCEPT ![i] = StartedProcess]
           ELSE /\ inv' = [inv EXCEPT ![i].merged = merged, ![i].codes = codes,
                                      ![i].pc = "returned"]
                /\ UNCHANGED <<input_file, proc>>
    /\ UNCHANGED <<output_pdb, keyVars, lineVars, mergeVars>>

Next ==
    \/ \E i \in Invocations, n \in 1..MaxBatch : Invoke(i, n)
    \/ \E i \in Invocations : ToolRead(i)
    \/ \E i \in Invocations : ToolSucceed(i)
    \/ \E i \in Invocations, code \in ExitCodes : ToolFail(i, code)
    \/ \E i \in Invocations : ResumeFailed(i)
    \/ \E i \in Invocations : ResumeMerged(i)

Spec == Init /\ [][Next]_vars

(***************************************************************************)
(* Claims about the position key.                                          *)
(***************************************************************************)
\* the rounded coordinates, in units of 0.0001
RoundedA(a) == Round4(posA[a])
RoundedB(a) == Round4(posB[a])

\* the rounded coordinates differ by less than 0.0002 in every axis
RoundedClose == \A a \in Axes : Abs(RoundedA(a) - RoundedB(a)) < 2

C9_FarKeysDiffer ==
    (kpc = "done" /\ \E a \in Axes : Abs(posA[a] - posB[a]) > 600) => keyA # keyB


(***************************************************************************)
(* Claims about add_hydrogens.                                             *)
(***************************************************************************)
Ended(i) == inv[i].pc \in {"returned", "NameError"}

FailedAt(i) == {k \in 1..Len(inv[i].codes) : inv[i].codes[k] # 0}

\* C1: an invocation that has ended, the tool having exited non-zero for a
\* structure of its batch, has returned the batch, left that structure
\* unmodified, merged the hydrogens of every later structure the tool
\* succeeded on, and run the tool once per structure.
C1_BatchIsolation ==
    \A i \in Invocations :
        (Ended(i) /\ FailedAt(i) # {}) =>
            /\ inv[i].pc = "returned"
            /\ Len(inv[i].codes) = inv[i].n
            /\ \A k \in 1..inv[i].n :
                  IF k \in FailedAt(i) THEN inv[i].merged[k] = <<>>
                                       ELSE Len(inv[i].merged[k]) = 1

\* C7: while an invocation awaits the tool for a structure, the shared path
\* holds that structure and no other tool process is on it, and the output
\* an invocation has merged into a structure was computed for it.
C7_OneAtATime ==
    \A i \in Invocations :
        /\ inv[i].pc = "awaiting" =>
              /\ input_file = <<i, inv[i].k>>
              /\ \A j \in Invocations \ {i} : proc[j].state \notin {"started", "read"}
        /\ inv[i].pc # "idle" =>
              \A k \in 1..inv[i].n :
                  \A m \in 1..Len(inv[i].merged[k]) : inv[i].merged[k][m] = <<i, k>>


(***************************************************************************)
(* Claims about the merge.                                                 *)
(***************************************************************************)
IdSet == {hydrogen_ids[i] : i \in 1..Len(hydrogen_ids)}

\* the hydrogen the next turn of the loop takes
NextH == hydrogen_ids[hpos + 1]

\* the non-hydrogen atoms of the hydrogen's residue, as the turn sees them
Heavy(h) ==
    {i \in 0..(Len(result_complex.atoms) - 1) :
        /\ i # h
        /\ result_complex.atoms[i + 1].residue = result_complex.atoms[h + 1].residue
        /\ result_complex.atoms[i + 1].symbol # "H"}

DistTo(h, i) ==
    DistanceSq(result_complex.atoms[i + 1].position,
               result_complex.atoms[h + 1].position)

\* the nearest of them, the first in iteration order among equals
Partner(h) ==
    CHOOSE i \in Heavy(h) :
        \A j \in Heavy(h) :
            /\ ~DistLess(DistTo(h, j), DistTo(h, i))
            /\ (j < i => DistLess(DistTo(h, i), DistTo(h, j)))

PartnerKey(h) == get_position_key(result_complex.atoms[Partner(h) + 1].position)

Accepted(h) ==
    /\ Heavy(h) # {}
    /\ ~DistLess(BondLimit, DistTo(h, Partner(h)))
    /\ PartnerKey(h) \in DOMAIN atom_by_position

TurnTaken == mpc = "match" /\ hpos' = hpos + 1

C2_Turn ==
    TurnTaken =>
        IF Accepted(NextH)
        THEN LET source == complex.atoms[atom_by_position[PartnerKey(NextH)] + 1]
             IN  /\ Len(complex'.atoms) = Len(complex.atoms) + 1
                 /\ Len(complex'.bonds) = Len(complex.bonds) + 1
                 /\ SubSeq(complex'.atoms, 1, Len(complex.atoms)) = complex.atoms
                 /\ SubSeq(complex'.bonds, 1, Len(complex.bonds)) = complex.bonds
                 /\ complex'.atoms[Len(complex'.atoms)].residue = source.residue
                 /\ complex'.bonds[Len(complex'.bonds)].residue = source.residue
        ELSE complex' = complex

\* C2: a turn of the loop of match_and_update adds exactly one atom and one
\* bond to the original structure, both in the source atom's residue, when
\* the hydrogen's residue has a non-hydrogen atom, the nearest one is at
\* most 2.0 away and its position key is in the index; every other turn
\* leaves the original structure unchanged.
C2_AcceptedAddsOne == [][C2_Turn]_vars

C2_Witness ==
    /\ mpc = "done"
    /\ Len(complex.atoms) > 2
    /\ Len(complex.atoms) - 2 < Len(hydrogen_ids)
    /\ Len(complex.bonds) = Len(complex.atoms) - 2

C3_Turn ==
    (TurnTaken /\ Accepted(NextH)) =>
        LET src == atom_by_position[PartnerKey(NextH)]
            source == complex.atoms[src + 1]
            new == complex'.atoms[Len(complex'.atoms)]
            bond == complex'.bonds[Len(complex'.bonds)]
        IN  /\ new.display_mode = source.display_mode
            /\ new.is_het = source.is_het
            /\ new.selected = source.selected
            /\ new.bfactor = source.bfactor
            /\ new.occupancy = source.occupancy
            /\ new.symbol = "H"
            /\ new.position = result_complex.atoms[NextH + 1].position
            /\ bond.atom1 = src
            /\ bond.atom2 = Len(complex'.atoms) - 1

\* C3: the atom a turn adds has the display mode, heteroatom flag, selected
\* flag, b-factor and occupancy of the source atom, the atom the index
\* holds for the bonding partner's key, and the bond added runs from the
\* source atom to the new atom.
C3_SourceAttributes == [][C3_Turn]_vars

\* an added atom whose attributes are not those a deserialized atom carries
C3_Witness ==
    /\ mpc = "done"
    /\ Len(complex.atoms) > 2
    /\ LET new == complex.atoms[3]
       IN  /\ new.selected # DefaultStyle.selected
           /\ new.display_mode # DefaultStyle.display_mode
           /\ new.bfactor # DefaultStyle.bfactor
           /\ new.occupancy # DefaultStyle.occupancy
           /\ new.is_het # DefaultStyle.is_het

\* C10: no bond of the deserialized structure made for a hydrogen of the
\* list ends at an atom whose index is in the list too.
C10_PartnerNotListed ==
    mpc \in {"match", "done"} =>
        \A i \in 1..Len(result_complex.bonds) :
            result_complex.bonds[i].atom2 \notin IdSet


(***************************************************************************)
(* Claims about the lines of the output file.                              *)
(***************************************************************************)
\* the status the claims speak of: at least 57 characters, '0' or '1' at 56
Marked(line) == Len(line) >= 57 /\ Col(line, 56) \in {"0", "1"}

\* the increasing list of the indices below n of the marked lines
MarkedBelow(ls, n) ==
    SelectSeq([i \in 1..n |-> i - 1], LAMBDA i : Marked(ls[i + 1]))

\* columns 17-20 and 23-26 of both lines hold the same characters
ResidueFieldsEqual(a, b) ==
    /\ Len(a) >= 27 /\ Len(b) >= 27
    /\ \A c \in (17..20) \cup (23..26) : Col(a, c) = Col(b, c)

HasChainBefore(ls, i) ==
    \E j \in 0..(i - 1) : Len(ls[j + 1]) >= 22 /\ Col(ls[j + 1], 21) \notin {" ", "\n"}

ChainBefore(ls, i) ==
    LET j == CHOOSE j \in 0..(i - 1) :
                 /\ Len(ls[j + 1]) >= 22 /\ Col(ls[j + 1], 21) \notin {" ", "\n"}
                 /\ \A k \in (j + 1)..(i - 1) :
                        ~(Len(ls[k + 1]) >= 22 /\ Col(ls[k + 1], 21) \notin {" ", "\n"})
    IN  ls[j + 1]

FixEnded == fpc = "fixed" \/ (fpc = "fix" /\ err # None)

\* C4: the identification pass never raises, and the list it has built
\* after n lines is the increasing list of the indices of the lines among
\* them that have at least 57 characters and '0' or '1' in column 56.
C4_IdentificationExact ==
    fpc \in {"identify", "done"} =>
        /\ err = None
        /\ new_hydrogens = MarkedBelow(lines, id)

\* C5: once fix_haad_chains has ended, every marked line that had a line
\* with a non-blank chain column before it carries the chain character of
\* the nearest such line when residue name and sequence number agree and
\* is unchanged when they differ, and every unmarked line is unchanged and
\* in its place.
C5_Body ==
    /\ Len(file) = Len(lines)
    /\ \A i \in 0..(Len(lines) - 1) :
        LET line == lines[i + 1]
        IN  IF ~Marked(line) THEN file[i + 1] = line
            ELSE HasChainBefore(lines, i) =>
                    IF ResidueFieldsEqual(line, ChainBefore(lines, i))
                    THEN Col(file[i + 1], 21) = Col(ChainBefore(lines, i), 21)
                    ELSE file[i + 1] = line

C5_ChainRepair == FixEnded => C5_Body

\* C6: a marked line with no line with a non-blank chain column before it
\* raises nothing and is written back unchanged.
C6_NoChainBefore ==
    \A i \in 0..(Len(lines) - 1) :
        (fpc \in {"fix", "fixed"} /\ Marked(lines[i + 1]) /\ ~HasChainBefore(lines, i)) =>
            /\ (i = id => err = None)
            /\ (i < id => output_lines[i + 1] = lines[i + 1])
            /\ (fpc = "fixed" => file[i + 1] = lines[i + 1])

====
